---- MODULE Spec2Model ----
(***************************************************************************)
(* Model of python_analyser_plugin/python_analyser.py: the PythonAnalyser  *)
(* that walks a directory tree, computes loc/cloc/nom/tloc for every .py   *)
(* file and returns the result as a ProjectData hierarchy.                 *)
(*                                                                         *)
(* Python strings are modelled as sequences of one-character strings, so   *)
(* that split, strip, startswith, count, sorted and the csv parsing are    *)
(* computed the way the code computes them.                                *)
(***************************************************************************)
EXTENDS Integers, Sequences, FiniteSets, TLC

VARIABLES
    \* ---- one call of PythonAnalyser.analyse ----
    pc,            \* position of the call: start, resolve, build, package, and the
                   \* ends returned, rejected, crashed
    fs,            \* the filesystem below input_dir: path -> entry
    kwargs,        \* the keyword arguments: metrics, exclude_directories, exclude_filenames
    exclude_dirs_list,   \* the parsed exclude_directories
    exclude_files_list,  \* the parsed exclude_filenames
    requested_metric_ids,  \* the parsed metrics
    metrics_to_compute,    \* the ids of the MetricDefs reported
    hierarchy,     \* the value returned by the top-level __build_hierarchy call
    project_data,  \* the ProjectData returned
    error,         \* the exception that left analyse ("none" when there is none)
    builderCalls,  \* number of __build_hierarchy invocations made by analyse itself
    \* ---- one call of PythonAnalyser.__calculate_metrics ----
    content,       \* the text handed to __calculate_metrics
    ast,           \* what ast.parse does on that text
    mpc,           \* position of the call: ready, done
    metrics        \* what the call returned

vars == <<pc, fs, kwargs, exclude_dirs_list, exclude_files_list, requested_metric_ids,
          metrics_to_compute, hierarchy, project_data, error, builderCalls,
          content, ast, mpc, metrics>>

analyseVars == <<pc, fs, kwargs, exclude_dirs_list, exclude_files_list, requested_metric_ids,
                 metrics_to_compute, hierarchy, project_data, error, builderCalls>>

metricVars == <<content, ast, mpc, metrics>>

-----------------------------------------------------------------------------
(* Characters and strings                                                   *)

NL == "\n"
SP == " "
TAB == "\t"
DQ == "\""
SQ == "'"
HASH == "#"
COMMA == ","
DOT == "."
SLASH == "/"

\* The characters str.strip() removes.
Whitespace == {SP, TAB, NL, "\r"}

Min(S) == CHOOSE x \in S : \A y \in S : x <= y

Max(S) == CHOOSE x \in S : \A y \in S : x >= y

\* str.strip()
Strip(s) ==
    LET keep == {i \in 1..Len(s) : s[i] \notin Whitespace}
    IN  IF keep = {} THEN <<>> ELSE SubSeq(s, Min(keep), Max(keep))

\* str.startswith(p)
StartsWith(s, p) == Len(s) >= Len(p) /\ SubSeq(s, 1, Len(p)) = p

\* str.endswith(p)
EndsWith(s, p) == Len(s) >= Len(p) /\ SubSeq(s, Len(s) - Len(p) + 1, Len(s)) = p

\* p in s
Contains(s, p) == \E i \in 1..(Len(s) - Len(p) + 1) : SubSeq(s, i, i + Len(p) - 1) = p

RECURSIVE CountFrom(_, _, _)
CountFrom(s, p, i) ==
    IF i + Len(p) - 1 > Len(s) THEN 0
    ELSE IF SubSeq(s, i, i + Len(p) - 1) = p THEN 1 + CountFrom(s, p, i + Len(p))
    ELSE CountFrom(s, p, i + 1)

\* str.count(p): the number of non-overlapping occurrences, scanning from the left
Count(s, p) == CountFrom(s, p, 1)

RECURSIVE SplitFrom(_, _, _, _)
SplitFrom(s, sep, i, cur) ==
    IF i > Len(s) THEN <<cur>>
    ELSE IF s[i] = sep THEN <<cur>> \o SplitFrom(s, sep, i + 1, <<>>)
    ELSE SplitFrom(s, sep, i + 1, Append(cur, s[i]))

\* str.split(sep) for a one-character separator: always at least one segment
Split(s, sep) == SplitFrom(s, sep, 1, <<>>)

RECURSIVE Join(_, _)
\* sep.join(parts)
Join(parts, sep) ==
    IF Len(parts) = 0 THEN <<>>
    ELSE IF Len(parts) = 1 THEN parts[1]
    ELSE parts[1] \o <<sep>> \o Join(Tail(parts), sep)

-----------------------------------------------------------------------------
(* The metric catalog                                                       *)

LOC == <<"l", "o", "c">>
CLOC == <<"c", "l", "o", "c">>
NOM == <<"n", "o", "m">>
TLOC == <<"t", "l", "o", "c">>

\* all_metrics, in insertion order (the MetricDef is identified by its id)
AllMetrics == <<LOC, CLOC, NOM, TLOC>>

AllMetricIds == {AllMetrics[i] : i \in 1..Len(AllMetrics)}

-----------------------------------------------------------------------------
(* __calculate_metrics                                                      *)

TripleDQ == <<DQ, DQ, DQ>>
TripleSQ == <<SQ, SQ, SQ>>
DefKeyword == <<"d", "e", "f", SP>>
Colon == <<":">>

\* The local variables of the line loop before the first line.
ClassifierInit ==
    [in_multiline_string |-> FALSE, multiline_quote |-> <<>>,
     comment_lines_count |-> 0, code_lines_count |-> 0]

\* The tail of the loop body: the single-line comment and code tests.
ClassifyPlain(st, stripped) ==
    IF StartsWith(stripped, <<HASH>>)
    THEN [st EXCEPT !.comment_lines_count = @ + 1]
    ELSE IF stripped # <<>> /\ ~st.in_multiline_string
    THEN [st EXCEPT !.code_lines_count = @ + 1]
    ELSE st

\* Faulty variant: the line that opens a documentation block is not skipped by
\* "continue" and so reaches the code test as well.
ClassifyLine_NoContinue(st, line) ==
    LET stripped == Strip(line) IN
    IF ~st.in_multiline_string
    THEN IF StartsWith(stripped, TripleDQ) \/ StartsWith(stripped, TripleSQ)
         THEN LET q == SubSeq(stripped, 1, 3)
                  s1 == [st EXCEPT !.multiline_quote = q,
                                   !.comment_lines_count = @ + 1]
              IN  IF Count(stripped, q) = 1
                  THEN [s1 EXCEPT !.code_lines_count = @ + 1,
                                  !.in_multiline_string = TRUE]
                  ELSE s1
         ELSE ClassifyPlain(st, stripped)
    ELSE LET s1 == [st EXCEPT !.comment_lines_count = @ + 1]
         IN  IF Contains(stripped, st.multiline_quote)
             THEN [s1 EXCEPT !.in_multiline_string = FALSE, !.multiline_quote = <<>>]
             ELSE s1

\* A variant in which either triple-quote marker ends a documentation block.
ClassifyLine_AnyMarkerCloses(st, line) ==
    LET stripped == Strip(line) IN
    IF ~st.in_multiline_string
    THEN IF StartsWith(stripped, TripleDQ) \/ StartsWith(stripped, TripleSQ)
         THEN LET q == SubSeq(stripped, 1, 3)
                  s1 == [st EXCEPT !.multiline_quote = q,
                                   !.comment_lines_count = @ + 1]
              IN  IF Count(stripped, q) = 1
                  THEN [s1 EXCEPT !.in_multiline_string = TRUE]
                  ELSE s1
         ELSE ClassifyPlain(st, stripped)
    ELSE LET s1 == [st EXCEPT !.comment_lines_count = @ + 1]
         IN  IF Contains(stripped, TripleDQ) \/ Contains(stripped, TripleSQ)
             THEN [s1 EXCEPT !.in_multiline_string = FALSE, !.multiline_quote = <<>>]
             ELSE s1

\* One iteration of "for line in lines".
ClassifyLine(st, line) ==
    LET stripped == Strip(line) IN
    IF ~st.in_multiline_string
    THEN IF StartsWith(stripped, TripleDQ) \/ StartsWith(stripped, TripleSQ)
         THEN LET q == SubSeq(stripped, 1, 3)
                  s1 == [st EXCEPT !.multiline_quote = q]
              IN  IF Count(stripped, q) = 1
                  THEN [s1 EXCEPT !.in_multiline_string = TRUE,
                                  !.comment_lines_count = @ + 1]
                  ELSE IF Count(stripped, q) >= 2
                  THEN [s1 EXCEPT !.comment_lines_count = @ + 1]
                  ELSE ClassifyPlain(s1, stripped)
         ELSE ClassifyPlain(st, stripped)
    ELSE LET s1 == [st EXCEPT !.comment_lines_count = @ + 1]
         IN  IF Contains(stripped, st.multiline_quote)
             THEN [s1 EXCEPT !.in_multiline_string = FALSE, !.multiline_quote = <<>>]
             ELSE s1

RECURSIVE ClassifierAfter(_, _)
\* The loop variables after the first n lines.
ClassifierAfter(lines, n) ==
    IF n = 0 THEN ClassifierInit
    ELSE ClassifyLine(ClassifierAfter(lines, n - 1), lines[n])

\* The SyntaxError fallback: lines that start with "def " and end with ":".
SimpleDefCount(lines) ==
    Cardinality({i \in 1..Len(lines) :
        StartsWith(Strip(lines[i]), DefKeyword) /\ EndsWith(Strip(lines[i]), Colon)})

\* Faulty variant: str.splitlines(), which yields no empty segment after a final newline.
SplitLines_DropTrailing(text) ==
    LET ls == Split(text, NL)
    IN  IF ls[Len(ls)] = <<>> THEN SubSeq(ls, 1, Len(ls) - 1) ELSE ls

\* content.split("\n")
SplitLines(text) == Split(text, NL)

\* What ast.parse(content) does is an input of the model: it returns a tree with
\* defs FunctionDef/AsyncFunctionDef nodes ("tree"), raises SyntaxError, or raises
\* another exception ("Error": RecursionError, MemoryError, ...).
AstTree(n) == [outcome |-> "tree", defs |-> n]
AstSyntaxError == [outcome |-> "SyntaxError", defs |-> 0]
AstError == [outcome |-> "Error", defs |-> 0]

\* __count_functions_and_methods(tree)
CountFunctionsAndMethods(a) == a.defs

MetricsDict(loc, cloc, nom, tloc) ==
    (LOC :> loc) @@ (CLOC :> cloc) @@ (NOM :> nom) @@ (TLOC :> tloc)

ZeroMetrics == MetricsDict(0, 0, 0, 0)

\* The value of metrics before the call.
NoMetrics == [raised |-> FALSE, value |-> ZeroMetrics]

\* __calculate_metrics(content): [raised, value]; only SyntaxError is caught.
CalculateMetrics(text, a) ==
    LET lines == SplitLines(text)
        st == ClassifierAfter(lines, Len(lines))
        method_cnt == IF a.outcome = "SyntaxError" THEN SimpleDefCount(lines)
                      ELSE CountFunctionsAndMethods(a)
    IN  IF a.outcome = "Error" THEN [raised |-> TRUE, value |-> ZeroMetrics]
        ELSE [raised |-> FALSE,
              value |-> MetricsDict(st.code_lines_count, st.comment_lines_count,
                                    method_cnt, Len(lines))]

-----------------------------------------------------------------------------
(* Names, paths and the filesystem                                          *)

\* The code points of the characters that names, paths and patterns are made of.
CodePoint(c) ==
    CASE c = "*" -> 42
      [] c = "." -> 46
      [] c = "/" -> 47
      [] c = "a" -> 97
      [] c = "b" -> 98
      [] c = "p" -> 112
      [] c = "r" -> 114
      [] c = "y" -> 121

\* a < b for Python strings: by code point, a proper prefix first
StrLess(a, b) ==
    \E k \in 1..Len(b) :
        /\ k <= Len(a) + 1
        /\ SubSeq(a, 1, k - 1) = SubSeq(b, 1, k - 1)
        /\ (k = Len(a) + 1 \/ CodePoint(a[k]) < CodePoint(b[k]))

PyExt == <<".", "p", "y">>

\* The directory entries' names: ".a.py", "a", "a.py", "ab.py".
HiddenName == <<".", "a", ".", "p", "y">>
PlainName == <<"a">>
APyName == <<"a", ".", "p", "y">>
AbPyName == <<"a", "b", ".", "p", "y">>

Names == {HiddenName, PlainName, APyName, AbPyName}

\* input_dir
InputDir == <<"r">>

\* A path is the sequence of names below input_dir; <<>> is input_dir itself.
\* os.path.join(current_path, item_name), unfolded from input_dir
RECURSIVE PathString(_)
PathString(path) ==
    IF path = <<>> THEN InputDir
    ELSE PathString(SubSeq(path, 1, Len(path) - 1)) \o <<SLASH>> \o path[Len(path)]

\* os.path.basename(current_path)
BaseName(path) == IF path = <<>> THEN InputDir ELSE path[Len(path)]

\* A byte that is not valid UTF-8.
BadByte == "0xFF"

\* What is at a path.  fault names the system call that fails on it: "listdir"
\* (os.listdir), "open" (open/read), "stat" (os.path.getmtime), or "none".
Entry(kind, fault, bytes, a) == [kind |-> kind, fault |-> fault, bytes |-> bytes, ast |-> a]

Missing == Entry("missing", "none", <<>>, AstTree(0))
DirOk == Entry("dir", "none", <<>>, AstTree(0))
DirDenied == Entry("dir", "listdir", <<>>, AstTree(0))

\* "x\n#"
PlainBytes == <<"x", NL, HASH>>

FileOk == Entry("file", "none", PlainBytes, AstTree(0))
\* the same text with an undecodable byte in it
FileBadUtf8 == Entry("file", "none", <<"x", BadByte, NL, HASH>>, AstTree(0))
FileUnreadable == Entry("file", "open", PlainBytes, AstTree(0))
FileNoStat == Entry("file", "stat", PlainBytes, AstTree(0))
FileParseError == Entry("file", "none", PlainBytes, AstError)

FileEntries == {FileOk, FileBadUtf8, FileUnreadable, FileNoStat, FileParseError}

LeafEntries == {DirOk, DirDenied} \cup FileEntries

RootEntries == {Missing} \cup LeafEntries

\* The largest number of entries below input_dir.
MaxEntries == 2

\* The places of a tree where one more entry can be put.
FreeSlots(t) ==
    { Append(p, n) : p \in {q \in DOMAIN t : t[q] = DirOk}, n \in Names } \ DOMAIN t

RECURSIVE TreesOf(_, _)
\* The trees with root entry r and at most k entries below it.
TreesOf(r, k) ==
    IF k = 0 THEN { (<<>> :> r) }
    ELSE LET smaller == TreesOf(r, k - 1)
         IN  smaller \cup UNION { { t @@ (p :> e) : p \in FreeSlots(t), e \in LeafEntries }
                                  : t \in smaller }

\* The trees that can be below each kind of input_dir.
Trees == [r \in RootEntries |-> TreesOf(r, MaxEntries)]

\* os.path.isfile, os.path.isdir
IsFile(tree, path) == tree[path].kind = "file"

IsDir(tree, path) == tree[path].kind = "dir"

\* The names of the entries of a directory.
ChildNames(tree, path) == {n \in Names : Append(path, n) \in DOMAIN tree}

RECURSIVE Factorial(_)
Factorial(n) == IF n = 0 THEN 1 ELSE n * Factorial(n - 1)

RECURSIVE SomeSeq(_)
\* The elements of a set of names in a sequence.
SomeSeq(S) ==
    IF S = {} THEN <<>>
    ELSE LET x == CHOOSE n \in S : \A m \in S \ {n} : StrLess(n, m)
         IN  <<x>> \o SomeSeq(S \ {x})

RECURSIVE Permuted(_, _)
\* The k-th arrangement of a sequence, k in 0..Len(seq)!-1.
Permuted(seq, k) ==
    IF seq = <<>> THEN <<>>
    ELSE LET f == Factorial(Len(seq) - 1)
             i == (k \div f) + 1
             rest == SubSeq(seq, 1, i - 1) \o SubSeq(seq, i + 1, Len(seq))
         IN  <<seq[i]>> \o Permuted(rest, k % f)

\* The directories whose entries can be enumerated in more than one order.
MultiDirs(tree) == {p \in DOMAIN tree : Cardinality(ChildNames(tree, p)) >= 2}

\* The orders in which os.listdir may enumerate the directories of a tree: for each
\* directory independently, any arrangement of its names.
Orders(tree) ==
    { o \in [MultiDirs(tree) -> 0..(Factorial(MaxEntries) - 1)] :
        \A p \in DOMAIN o : o[p] < Factorial(Cardinality(ChildNames(tree, p))) }

\* os.listdir(current_path): [raised, names]
Listdir(tree, path, order) ==
    LET names == SomeSeq(ChildNames(tree, path))
    IN  IF tree[path].fault = "listdir" THEN [raised |-> TRUE, names |-> <<>>]
        ELSE [raised |-> FALSE,
              names |-> IF path \in DOMAIN order THEN Permuted(names, order[path])
                        ELSE names]

RECURSIVE InsertSorted(_, _)
InsertSorted(sorted, x) ==
    IF sorted = <<>> THEN <<x>>
    ELSE IF StrLess(x, Head(sorted)) THEN <<x>> \o sorted
    ELSE <<Head(sorted)>> \o InsertSorted(Tail(sorted), x)

RECURSIVE SortedFrom(_, _)
SortedFrom(names, n) ==
    IF n = 0 THEN <<>> ELSE InsertSorted(SortedFrom(names, n - 1), names[n])

\* Faulty variant: the listing is walked in the order os.listdir gave it.
Sorted_Unsorted(names) == names

\* sorted(os.listdir(current_path))
Sorted(names) == SortedFrom(names, Len(names))

-----------------------------------------------------------------------------
(* The parameters                                                           *)

Seq2Set(s) == {s[i] : i \in 1..Len(s)}

RECURSIVE StripEach(_)
StripEach(items) ==
    IF items = <<>> THEN <<>>
    ELSE <<Strip(Head(items))>> \o StripEach(Tail(items))

NonEmpty(item) == item # <<>>

\* Faulty variant: blank items are kept.
ParseCsvParam_KeepBlank(param) ==
    IF param = <<>> \/ Strip(param) = <<>> THEN <<>>
    ELSE StripEach(Split(param, COMMA))

\* __parse_csv_param
ParseCsvParam(param) ==
    IF param = <<>> \/ Strip(param) = <<>> THEN <<>>
    ELSE SelectSeq(StripEach(Split(param, COMMA)), NonEmpty)

InCatalog(metric_id) == metric_id \in AllMetricIds

\* Faulty variant: one unrecognized id invalidates the whole request.
MetricsToCompute_AllOrNothing(ids) ==
    IF ids = <<>> THEN AllMetrics
    ELSE IF \A i \in 1..Len(ids) : InCatalog(ids[i]) THEN ids
    ELSE <<>>

\* The choice of metrics_to_compute from the parsed ids.
MetricsToCompute(ids) ==
    IF ids # <<>> THEN SelectSeq(ids, InCatalog) ELSE AllMetrics

\* kwargs.get(key, "")
KwGet(kw, key) == IF key \in kw.given THEN kw[key] ELSE <<>>

\* __should_exclude_directory
ShouldExcludeDirectory(dir_name, exclude_dirs) ==
    IF exclude_dirs = <<>> THEN FALSE ELSE dir_name \in Seq2Set(exclude_dirs)

RECURSIVE GlobMatch(_, _, _, _)
GlobMatch(s, i, pat, j) ==
    IF j > Len(pat) THEN i > Len(s)
    ELSE IF pat[j] = "*"
    THEN GlobMatch(s, i, pat, j + 1) \/ (i <= Len(s) /\ GlobMatch(s, i + 1, pat, j))
    ELSE IF pat[j] = "?"
    THEN i <= Len(s) /\ GlobMatch(s, i + 1, pat, j + 1)
    ELSE i <= Len(s) /\ s[i] = pat[j] /\ GlobMatch(s, i + 1, pat, j + 1)

\* fnmatch.fnmatch(name, pattern), for patterns of literals, "*" and "?"
FnMatch(name, pattern) == GlobMatch(name, 1, pattern, 1)

\* os.path.basename(file_path)
PathBaseName(file_path) ==
    LET parts == Split(file_path, SLASH) IN parts[Len(parts)]

\* A variant that matches the patterns against the bare name only.
ShouldExcludeFile_NameOnly(file_path, exclude_files) ==
    IF exclude_files = <<>> THEN FALSE
    ELSE \E k \in 1..Len(exclude_files) :
            FnMatch(PathBaseName(file_path), exclude_files[k])

\* __should_exclude_file
ShouldExcludeFile(file_path, exclude_files) ==
    IF exclude_files = <<>> THEN FALSE
    ELSE \E k \in 1..Len(exclude_files) :
            \/ FnMatch(PathBaseName(file_path), exclude_files[k])
            \/ FnMatch(file_path, exclude_files[k])

-----------------------------------------------------------------------------
(* __analyse_file and __build_hierarchy                                     *)

FolderNode(name, children) == [type |-> "folder", name |-> name, children |-> children]

FileNode(name, lastModified, m) ==
    [type |-> "file", name |-> name, language |-> "python",
     lastModified |-> lastModified, metrics |-> m, uses |-> <<>>, usedBy |-> <<>>]

\* An exception leaving a call, where a node would have been returned.
Raised == [type |-> "raise"]

IsValidByte(b) == b # BadByte

\* Faulty variant: strict decoding, an invalid byte raises UnicodeDecodeError.
ReadText_Strict(entry) ==
    IF entry.fault = "open" \/ \E i \in 1..Len(entry.bytes) : ~IsValidByte(entry.bytes[i])
    THEN [raised |-> TRUE, text |-> <<>>]
    ELSE [raised |-> FALSE, text |-> entry.bytes]

\* open(file_path, "r", encoding="utf-8", errors="ignore").read(): [raised, text];
\* the bytes that do not decode are dropped.
ReadText(entry) ==
    IF entry.fault = "open" THEN [raised |-> TRUE, text |-> <<>>]
    ELSE [raised |-> FALSE, text |-> SelectSeq(entry.bytes, IsValidByte)]

\* The try block of __analyse_file.  lastModified is "mtime" when it is the file's
\* modification time and "now" when it is datetime.now().
AnalyseFileTry(entry, file_name) ==
    LET read == ReadText(entry)
        m == CalculateMetrics(read.text, entry.ast)
    IN  IF read.raised THEN Raised
        ELSE IF entry.fault = "stat" THEN Raised
        ELSE IF m.raised THEN Raised
        ELSE FileNode(file_name, "mtime", m.value)

\* Faulty variant: no except clause, the exception leaves __analyse_file.
AnalyseFile_NoExcept(entry, file_name) == AnalyseFileTry(entry, file_name)

\* __analyse_file
AnalyseFile(entry, file_name) ==
    LET node == AnalyseFileTry(entry, file_name)
    IN  IF node.type = "raise" THEN FileNode(file_name, "now", ZeroMetrics) ELSE node

\* Faulty variant: every folder is appended, empty or not.
KeepFolder_NoPruning(child_node) == child_node.type = "folder"

\* child_node.type == "folder" and child_node.children
KeepFolder(child_node) == child_node.type = "folder" /\ child_node.children # <<>>

\* Faulty variant: the except clauses are missing, the exception leaves __build_hierarchy.
AfterDirectoryError_Propagate(rel_name, children) == Raised

\* The except clauses of __build_hierarchy and the return after them: the children
\* gathered so far are returned.
AfterDirectoryError(rel_name, children) == FolderNode(rel_name, children)

\* A variant of the hidden test that hides files only; directories are listed.
SkipHidden_FilesOnly(tree, item_path, item_name) ==
    StartsWith(item_name, <<DOT>>) /\ tree[item_path].kind = "file"

\* item_name.startswith("."), the first test of the loop body, made before the
\* entry is looked at
SkipHidden(tree, item_path, item_name) == StartsWith(item_name, <<DOT>>)

RECURSIVE BuildHierarchy(_, _, _, _, _)
RECURSIVE WalkItems(_, _, _, _, _, _, _, _)

\* The for loop of __build_hierarchy from the i-th item on, with the children
\* gathered so far: [raised, children].
WalkItems(tree, path, order, exclude_dirs, exclude_files, items, i, children) ==
    IF i > Len(items) THEN [raised |-> FALSE, children |-> children]
    ELSE
    LET item_name == items[i]
        item_path == Append(path, item_name)
        Continue(ch) ==
            WalkItems(tree, path, order, exclude_dirs, exclude_files, items, i + 1, ch)
        child == BuildHierarchy(tree, item_path, order, exclude_dirs, exclude_files)
    IN  IF SkipHidden(tree, item_path, item_name) THEN Continue(children)
        ELSE IF IsDir(tree, item_path)
        THEN IF ShouldExcludeDirectory(item_name, exclude_dirs) THEN Continue(children)
             ELSE IF child.type = "raise" THEN [raised |-> TRUE, children |-> children]
             ELSE IF KeepFolder(child) THEN Continue(Append(children, child))
             ELSE Continue(children)
        ELSE IF IsFile(tree, item_path)
        THEN IF ShouldExcludeFile(PathString(item_path), exclude_files)
             THEN Continue(children)
             ELSE IF EndsWith(item_name, PyExt)
             THEN IF child.type = "raise" THEN [raised |-> TRUE, children |-> children]
                  ELSE Continue(Append(children, child))
             ELSE Continue(children)
        ELSE Continue(children)

\* __build_hierarchy(current_path, root_path, exclude_dirs, exclude_files), on the
\* filesystem tree with os.listdir enumerating in the given order.
BuildHierarchy(tree, path, order, exclude_dirs, exclude_files) ==
    LET rel_name == BaseName(path)
        listing == Listdir(tree, path, order)
        walk == WalkItems(tree, path, order, exclude_dirs, exclude_files,
                          Sorted(listing.names), 1, <<>>)
    IN  IF IsFile(tree, path) THEN AnalyseFile(tree[path], rel_name)
        ELSE IF listing.raised THEN AfterDirectoryError(rel_name, <<>>)
        ELSE IF walk.raised THEN AfterDirectoryError(rel_name, walk.children)
        ELSE FolderNode(rel_name, walk.children)

-----------------------------------------------------------------------------
(* One call of analyse                                                      *)

Kwargs(given, m, xd, xf) ==
    [given |-> given, metrics |-> m, exclude_directories |-> xd, exclude_filenames |-> xf]

Bogus == <<"b", "o", "g", "u", "s">>

\* The keyword arguments of the calls: none; metrics "", " , ", "loc,bogus", "bogus",
\* "loc,nom", " tloc ,loc"; exclude_directories "a"; exclude_filenames "ab*" and
\* "r/a/*".
Configs ==
    { Kwargs({}, <<>>, <<>>, <<>>),
      Kwargs({"metrics"}, <<>>, <<>>, <<>>),
      Kwargs({"metrics"}, <<SP, COMMA, SP>>, <<>>, <<>>),
      Kwargs({"metrics"}, LOC \o <<COMMA>> \o Bogus, <<>>, <<>>),
      Kwargs({"metrics"}, Bogus, <<>>, <<>>),
      Kwargs({"metrics"}, LOC \o <<COMMA>> \o NOM, <<>>, <<>>),
      Kwargs({"metrics"}, <<SP>> \o TLOC \o <<SP, COMMA>> \o LOC, <<>>, <<>>),
      Kwargs({"exclude_directories"}, <<>>, PlainName, <<>>),
      Kwargs({"exclude_filenames"}, <<>>, <<>>, <<"a", "b", "*">>),
      Kwargs({"exclude_filenames"}, <<>>, <<>>, <<"r", "/", "a", "/", "*">>) }

NoNode == [type |-> "none"]

NoReport == [version |-> "none", title |-> <<>>, metrics |-> <<>>, hierarchy |-> NoNode]

MetricsIdle ==
    /\ content = <<>>
    /\ ast = AstTree(0)
    /\ mpc = "idle"
    /\ metrics = NoMetrics

\* analyse has been called: input_dir is missing, a directory or a file; what is
\* below it is read when the hierarchy is built.
Init ==
    /\ pc = "start"
    /\ fs \in { (<<>> :> r) : r \in RootEntries }
    /\ kwargs \in Configs
    /\ exclude_dirs_list = <<>>
    /\ exclude_files_list = <<>>
    /\ requested_metric_ids = <<>>
    /\ metrics_to_compute = <<>>
    /\ hierarchy = NoNode
    /\ project_data = NoReport
    /\ error = "none"
    /\ builderCalls = 0
    /\ MetricsIdle

\* os.path.exists(input_dir)
CheckRoot ==
    /\ pc = "start"
    /\ IF fs[<<>>].kind = "missing"
       THEN pc' = "rejected" /\ error' = "ValueError"
       ELSE pc' = "resolve" /\ error' = error
    /\ UNCHANGED <<fs, kwargs, exclude_dirs_list, exclude_files_list, requested_metric_ids,
                   metrics_to_compute, hierarchy, project_data, builderCalls>>
    /\ UNCHANGED metricVars

\* The parameters are parsed and the metrics to compute are chosen.
ResolveMetrics ==
    /\ pc = "resolve"
    /\ exclude_dirs_list' = ParseCsvParam(KwGet(kwargs, "exclude_directories"))
    /\ exclude_files_list' = ParseCsvParam(KwGet(kwargs, "exclude_filenames"))
    /\ requested_metric_ids' = ParseCsvParam(KwGet(kwargs, "metrics"))
    /\ metrics_to_compute' = MetricsToCompute(requested_metric_ids')
    /\ IF requested_metric_ids' # <<>> /\ metrics_to_compute' = <<>>
       THEN pc' = "rejected" /\ error' = "ValueError"
       ELSE pc' = "build" /\ error' = error
    /\ UNCHANGED <<fs, kwargs, hierarchy, project_data, builderCalls>>
    /\ UNCHANGED metricVars

\* __build_hierarchy(input_dir, input_dir, exclude_dirs_list, exclude_files_list):
\* the tree below input_dir is read, os.listdir enumerating in some order.
Build ==
    /\ pc = "build"
    /\ \E tree \in Trees[fs[<<>>]] : \E order \in Orders(tree) :
          /\ fs' = tree
          /\ hierarchy' = BuildHierarchy(tree, <<>>, order,
                                         exclude_dirs_list, exclude_files_list)
    /\ builderCalls' = builderCalls + 1
    /\ IF hierarchy'.type = "raise"
       THEN pc' = "crashed" /\ error' = "Exception"
       ELSE pc' = "package" /\ error' = error
    /\ UNCHANGED <<kwargs, exclude_dirs_list, exclude_files_list, requested_metric_ids,
                   metrics_to_compute, project_data>>
    /\ UNCHANGED metricVars

\* ProjectData(...) is constructed and returned (no title is passed: it is the
\* base name of input_dir).
Package ==
    /\ pc = "package"
    /\ project_data' = [version |-> "1.0", title |-> BaseName(<<>>),
                  metrics |-> metrics_to_compute, hierarchy |-> hierarchy]
    /\ pc' = "returned"
    /\ UNCHANGED <<fs, kwargs, exclude_dirs_list, exclude_files_list, requested_metric_ids,
                   metrics_to_compute, hierarchy, error, builderCalls>>
    /\ UNCHANGED metricVars

Next == CheckRoot \/ ResolveMetrics \/ Build \/ Package

Spec == Init /\ [][Next]_vars

-----------------------------------------------------------------------------
(* Reading a hierarchy                                                      *)

Terminal == {"returned", "rejected", "crashed"}

RootExists == fs[<<>>].kind # "missing"

RECURSIVE AllNodes(_)
\* The nodes of a hierarchy.
AllNodes(node) ==
    IF node.type = "folder"
    THEN {node} \cup UNION { AllNodes(node.children[i]) : i \in 1..Len(node.children) }
    ELSE {node}

\* The nodes below the root node.
Descendants(node) == AllNodes(node) \ {node}

RECURSIVE NodeAt(_, _)
\* The node a path leads to, NoNode when there is none.
NodeAt(node, path) ==
    IF path = <<>> THEN node
    ELSE IF node.type # "folder" THEN NoNode
    ELSE LET hits == {i \in 1..Len(node.children) : node.children[i].name = path[1]}
         IN  IF hits = {} THEN NoNode
             ELSE NodeAt(node.children[CHOOSE i \in hits : TRUE], Tail(path))

\* How many children of the folder a path leads to carry a name.
ChildCount(node, path, name) ==
    LET parent == NodeAt(node, path)
    IN  IF parent.type # "folder" THEN 0
        ELSE Cardinality({i \in 1..Len(parent.children) : parent.children[i].name = name})

Parent(path) == SubSeq(path, 1, Len(path) - 1)

Hidden(name) == name[1] = DOT

RECURSIVE TraversedDir(_, _, _)
\* The directory at a path is listed by the traversal: it is input_dir, or a
\* directory that is neither hidden nor excluded in a listed directory, and
\* os.listdir succeeds on it.
TraversedDir(tree, path, exclude_dirs) ==
    /\ path \in DOMAIN tree
    /\ tree[path] = DirOk
    /\ \/ path = <<>>
       \/ /\ TraversedDir(tree, Parent(path), exclude_dirs)
          /\ ~Hidden(BaseName(path))
          /\ ~ShouldExcludeDirectory(BaseName(path), exclude_dirs)

\* The file at a path passes the hidden, extension and exclusion filters of a
\* listed directory.
QualifyingFile(tree, path, exclude_dirs, exclude_files) ==
    /\ path \in DOMAIN tree
    /\ path # <<>>
    /\ tree[path].kind = "file"
    /\ TraversedDir(tree, Parent(path), exclude_dirs)
    /\ ~Hidden(BaseName(path))
    /\ EndsWith(BaseName(path), PyExt)
    /\ ~ShouldExcludeFile(PathString(path), exclude_files)

\* Reading, stat-ing or analysing the file raises.
Failing(entry) == entry.fault # "none" \/ entry.ast = AstError

HasBadByte(entry) == \E i \in 1..Len(entry.bytes) : entry.bytes[i] = BadByte

\* An order of enumeration of a tree's directories.
AnOrder(tree) == CHOOSE o \in Orders(tree) : TRUE

-----------------------------------------------------------------------------
(* Properties of analyse: the requested metrics                             *)

LocBogus == LOC \o <<COMMA>> \o Bogus

C1Case ==
    pc \in Terminal /\ RootExists /\ KwGet(kwargs, "metrics") = LocBogus

\* C1 as stated: analyse called with metrics "loc,bogus" raises ValueError instead
\* of returning a report.
C1_AsClaimed == C1Case => (pc = "rejected" /\ error = "ValueError")

\* C1 amended: analyse called with metrics "loc,bogus" on an existing root raises
\* nothing and returns a report whose metric list is [loc].
C1_LocBogusReturns ==
    C1Case => (pc = "returned" /\ error = "none" /\ project_data.metrics = <<LOC>>)

C1_Witness == C1Case /\ pc = "returned" /\ requested_metric_ids = <<LOC, Bogus>>

\* The raw parameter is absent, "" or made of blanks and commas only.
BlankRequest == \A i \in 1..Len(KwGet(kwargs, "metrics")) :
                    KwGet(kwargs, "metrics")[i] \in Whitespace \cup {COMMA}

\* C2: for an existing root, a non-empty parsed list with no entry in the catalog
\* makes analyse raise ValueError; an empty request (absent, "", only blanks and
\* commas) does not fail and the report's metric list is [loc, cloc, nom, tloc].
C2_RequestedMetrics ==
    (pc \in Terminal /\ RootExists) =>
        /\ (requested_metric_ids # <<>>
            /\ Seq2Set(requested_metric_ids) \cap AllMetricIds = {})
              => (pc = "rejected" /\ error = "ValueError")
        /\ BlankRequest
              => (pc = "returned" /\ error = "none" /\ requested_metric_ids = <<>>
                  /\ project_data.metrics = <<LOC, CLOC, NOM, TLOC>>)

\* The request " , " is served with the whole catalog.
C2_Witness ==
    /\ pc = "returned"
    /\ KwGet(kwargs, "metrics") = <<SP, COMMA, SP>>
    /\ project_data.metrics = AllMetrics

\* C3: in every report, the keys of every FileNode's metrics mapping are exactly the
\* ids of the report's metric list.
C3_KeysAreReportedMetrics ==
    pc = "returned" =>
        \A n \in AllNodes(project_data.hierarchy) :
            n.type = "file" => DOMAIN n.metrics = Seq2Set(project_data.metrics)

-----------------------------------------------------------------------------
(* Properties of analyse: files that fail                                   *)

Built == pc \in {"package", "returned"}

\* The files the traversal analyses: input_dir itself when it is a file, and the
\* qualifying files of the listed directories.
AnalysedFiles ==
    {p \in DOMAIN fs :
        \/ (p = <<>> /\ fs[p].kind = "file")
        \/ QualifyingFile(fs, p, exclude_dirs_list, exclude_files_list)}

PresentOnce(p) ==
    IF p = <<>> THEN hierarchy.type = "file"
    ELSE ChildCount(hierarchy, Parent(p), BaseName(p)) = 1

\* C6 as stated: a file with invalid UTF-8 sequences yields a FileNode with zeroed
\* metrics and the current time, present among its parent's children.
C6_AsClaimed ==
    Built =>
        \A p \in AnalysedFiles :
            (HasBadByte(fs[p]) /\ ~Failing(fs[p])) =>
                /\ PresentOnce(p)
                /\ NodeAt(hierarchy, p) = FileNode(BaseName(p), "now", ZeroMetrics)

\* C6 amended: a file with invalid UTF-8 sequences is decoded with those bytes
\* dropped; its FileNode carries the metrics of the remaining text ("x\n#": loc=1,
\* cloc=1, nom=0, tloc=2) and the file's modification time, and is present among its
\* parent folder's children.
C6_UndecodableBytesDropped ==
    Built =>
        \A p \in AnalysedFiles :
            (HasBadByte(fs[p]) /\ ~Failing(fs[p])) =>
                /\ PresentOnce(p)
                /\ NodeAt(hierarchy, p) =
                      FileNode(BaseName(p), "mtime", MetricsDict(1, 1, 0, 2))

\* An undecodable file below a sub-directory.
C6_Witness ==
    /\ pc = "returned"
    /\ \E p \in AnalysedFiles :
          /\ Len(p) = 2
          /\ fs[p] = FileBadUtf8
          /\ NodeAt(project_data.hierarchy, p).type = "file"

\* The tree with every failing file replaced by one that can be analysed.
Healed(tree) ==
    [p \in DOMAIN tree |-> IF tree[p].kind = "file" /\ Failing(tree[p])
                           THEN FileOk ELSE tree[p]]

RECURSIVE Shape(_)
\* The names and types of a hierarchy, without what the file nodes hold.
Shape(node) ==
    IF node.type = "folder"
    THEN [type |-> "folder", name |-> node.name,
          children |-> [i \in 1..Len(node.children) |-> Shape(node.children[i])]]
    ELSE [type |-> node.type, name |-> node.name, children |-> <<>>]

\* C7: every file that passes the filters has exactly one FileNode among its
\* parent's children, whether or not reading, stat-ing or analysing it fails; when
\* that fails the node's metrics are all zero; and the failure removes or alters no
\* other node: the hierarchy is the one built had no file failed, but for the
\* failing files' own nodes.
C7_DegradeNeverOmit ==
    Built =>
        LET healthy == BuildHierarchy(Healed(fs), <<>>, AnOrder(fs),
                                      exclude_dirs_list, exclude_files_list)
        IN  /\ \A p \in AnalysedFiles :
                  /\ PresentOnce(p)
                  /\ NodeAt(hierarchy, p).type = "file"
                  /\ Failing(fs[p]) => NodeAt(hierarchy, p).metrics = ZeroMetrics
                  /\ ~Failing(fs[p]) => NodeAt(hierarchy, p) = NodeAt(healthy, p)
            /\ Shape(hierarchy) = Shape(healthy)

\* A failing file beside a file that is analysed.
C7_Witness ==
    /\ pc = "returned"
    /\ \E p, q \in AnalysedFiles :
          /\ Parent(p) = Parent(q)
          /\ fs[p] = FileUnreadable
          /\ fs[q] = FileOk
          /\ NodeAt(hierarchy, p).metrics = ZeroMetrics
          /\ NodeAt(hierarchy, q).metrics = MetricsDict(1, 1, 0, 2)

-----------------------------------------------------------------------------
(* Properties of analyse: the run and the hierarchy                         *)

WhollyUnrecognized ==
    requested_metric_ids # <<>> /\ Seq2Set(requested_metric_ids) \cap AllMetricIds = {}

\* C8: a run ends either rejected with ValueError (root missing, or the requested
\* metrics wholly unrecognized) before __build_hierarchy is called, or returned
\* after exactly one call of it on the root; no failure of a file or of a listing
\* leaves analyse; a directory whose listing fails gives a FolderNode with the
\* children gathered before the failure (none: the listing precedes the loop).
C8_RunOutcomes ==
    /\ pc \notin Terminal => ENABLED Next
    /\ pc # "crashed"
    /\ pc \in {"start", "resolve", "build"} => builderCalls = 0
    /\ pc = "rejected" =>
          /\ error = "ValueError"
          /\ builderCalls = 0
          /\ hierarchy = NoNode
          /\ project_data = NoReport
          /\ (~RootExists \/ WhollyUnrecognized)
    /\ Built =>
          /\ error = "none"
          /\ builderCalls = 1
          /\ RootExists /\ ~WhollyUnrecognized
          /\ hierarchy.type \in {"folder", "file"}
          /\ \A p \in DOMAIN fs :
                fs[p] = DirDenied =>
                    /\ BuildHierarchy(fs, p, AnOrder(fs), exclude_dirs_list,
                                      exclude_files_list) = FolderNode(BaseName(p), <<>>)
                    /\ p = <<>> => hierarchy = FolderNode(InputDir, <<>>)
    /\ pc = "returned" => project_data.hierarchy = hierarchy

\* A run that returns although a listing and a file below the root fail.
C8_Witness ==
    /\ pc = "returned"
    /\ builderCalls = 1
    /\ \E p, q \in DOMAIN fs :
          /\ Len(p) = 1 /\ fs[p] = DirDenied
          /\ q \in AnalysedFiles /\ fs[q] = FileNoStat

RECURSIVE Fruitful(_, _, _, _)
\* A listed directory has an entry that survives: a qualifying file, or a
\* sub-directory that is listed and has one itself.
Fruitful(tree, path, exclude_dirs, exclude_files) ==
    /\ TraversedDir(tree, path, exclude_dirs)
    /\ \E n \in ChildNames(tree, path) :
          \/ QualifyingFile(tree, Append(path, n), exclude_dirs, exclude_files)
          \/ Fruitful(tree, Append(path, n), exclude_dirs, exclude_files)

\* C9: every FolderNode other than the root has at least one child: a sub-directory
\* appears in its parent's children exactly when some entry of it survives the
\* filters and the pruning; the root FolderNode is returned even with no children.
C9_EmptyFoldersPruned ==
    (Built /\ fs[<<>>].kind = "dir") =>
        /\ hierarchy.type = "folder"
        /\ hierarchy.name = InputDir
        /\ \A n \in Descendants(hierarchy) : n.type = "folder" => n.children # <<>>
        /\ \A p \in DOMAIN fs :
              (p # <<>> /\ fs[p].kind = "dir") =>
                  IF Fruitful(fs, p, exclude_dirs_list, exclude_files_list)
                  THEN NodeAt(hierarchy, p).type = "folder"
                  ELSE NodeAt(hierarchy, p) = NoNode

\* The root is returned without children: its sub-directory holds only an empty
\* sub-directory and both are pruned.
C9_Witness ==
    /\ pc = "returned"
    /\ project_data.hierarchy = FolderNode(InputDir, <<>>)
    /\ \E p \in DOMAIN fs : Len(p) = 2 /\ fs[p] = DirOk /\ fs[Parent(p)] = DirOk
                            /\ ~Hidden(p[1]) /\ ~Hidden(p[2])

\* C10: the children of every FolderNode are in strictly increasing order of name,
\* and the hierarchy is the same whatever order os.listdir enumerates in.
C10_ChildrenSorted ==
    Built =>
        /\ \A n \in AllNodes(hierarchy) :
              n.type = "folder" =>
                  \A i \in 1..(Len(n.children) - 1) :
                      StrLess(n.children[i].name, n.children[i + 1].name)
        /\ \A order \in Orders(fs) :
              BuildHierarchy(fs, <<>>, order, exclude_dirs_list, exclude_files_list)
                  = hierarchy

\* A folder with two children, in a tree that can be enumerated in two orders.
C10_Witness ==
    /\ pc = "returned"
    /\ Cardinality(Orders(fs)) >= 2
    /\ \E n \in AllNodes(project_data.hierarchy) : n.type = "folder" /\ Len(n.children) = 2

-----------------------------------------------------------------------------
(* Properties of analyse: hidden entries and the file filters               *)

\* A path with a hidden name in it: a hidden entry, or an entry below one.
UnderHidden(path) == \E i \in 1..Len(path) : Hidden(path[i])

\* The tree without its hidden entries and what is below them.
WithoutHidden(tree) == [p \in {q \in DOMAIN tree : ~UnderHidden(q)} |-> tree[p]]

DotStar == <<DOT, "*">>

\* Parsed exclusion lists beside those of the call: lists that name the hidden
\* entries themselves.
DirExclusions == { <<HiddenName>> }

FileExclusions == { <<DotStar>> }

\* C11: whatever the exclusion lists are (empty ones included), no node below the
\* root of the hierarchy carries a name that starts with ".", no entry at or below a
\* hidden name has a node, and a hidden directory is not descended into: the
\* hierarchy is the one built from the tree with the hidden entries and everything
\* below them removed; the same holds with exclusion lists that name the hidden
\* entries.
C11_HiddenNeverVisible ==
    Built =>
        /\ \A n \in Descendants(hierarchy) : ~Hidden(n.name)
        /\ \A p \in DOMAIN fs : UnderHidden(p) => NodeAt(hierarchy, p) = NoNode
        /\ hierarchy = BuildHierarchy(WithoutHidden(fs), <<>>, AnOrder(WithoutHidden(fs)),
                                      exclude_dirs_list, exclude_files_list)
        /\ \A xd \in DirExclusions : \A xf \in FileExclusions :
              BuildHierarchy(fs, <<>>, AnOrder(fs), xd, xf)
                  = BuildHierarchy(WithoutHidden(fs), <<>>, AnOrder(WithoutHidden(fs)),
                                   xd, xf)

\* A hidden directory that holds a Python file nothing excludes: the root is
\* returned without children.
C11_Witness ==
    /\ pc = "returned"
    /\ exclude_dirs_list = <<>>
    /\ exclude_files_list = <<>>
    /\ \E p \in DOMAIN fs :
          /\ Len(p) = 2
          /\ Hidden(p[1]) /\ fs[Parent(p)] = DirOk
          /\ p[2] = APyName /\ fs[p] = FileOk
    /\ project_data.hierarchy = FolderNode(InputDir, <<>>)

\* The non-hidden file entries of the directories the traversal lists.
ListedFiles ==
    {p \in DOMAIN fs :
        /\ p # <<>>
        /\ fs[p].kind = "file"
        /\ ~Hidden(BaseName(p))
        /\ TraversedDir(fs, Parent(p), exclude_dirs_list)}

\* Some pattern of the list matches the bare name or the full path.
PatternHits(p, patterns) ==
    \E k \in 1..Len(patterns) :
        FnMatch(BaseName(p), patterns[k]) \/ FnMatch(PathString(p), patterns[k])

\* C12: a non-hidden file entry of a listed directory is a child of that directory's
\* folder node, once, exactly when its name ends with ".py" and no pattern of the
\* filename-exclusion list matches its bare name or its full path; a file with
\* another extension is never a child; a file that passes is a child whatever it
\* holds and whether or not analysing it fails.
C12_FileFilter ==
    Built =>
        \A p \in ListedFiles :
            LET survives == /\ EndsWith(BaseName(p), PyExt)
                            /\ ~PatternHits(p, exclude_files_list)
            IN  /\ NodeAt(hierarchy, Parent(p)).type = "folder" =>
                      ChildCount(hierarchy, Parent(p), BaseName(p))
                          = IF survives THEN 1 ELSE 0
                /\ survives =>
                      /\ NodeAt(hierarchy, Parent(p)).type = "folder"
                      /\ NodeAt(hierarchy, p).type = "file"
                /\ ~survives => NodeAt(hierarchy, p) = NoNode

\* Of two Python files of the root, the one a pattern matches is left out and the
\* other, which cannot be read, is a child.
C12_Witness ==
    /\ pc = "returned"
    /\ exclude_files_list = << <<"a", "b", "*">> >>
    /\ <<APyName>> \in ListedFiles /\ fs[<<APyName>>] = FileUnreadable
    /\ <<AbPyName>> \in ListedFiles
    /\ Len(project_data.hierarchy.children) = 1
    /\ project_data.hierarchy.children[1] = FileNode(APyName, "now", ZeroMetrics)

-----------------------------------------------------------------------------
(* The texts __calculate_metrics is applied to                              *)

\* The largest number of lines of a text.
MaxLines == 3

DefLine == <<"d", "e", "f", SP, "f", "(", ")", ":">>
PassLine == <<SP, SP, SP, SP, "p", "a", "s", "s">>

\* The lines the texts are made of: blank, whitespace only, code, comment, the two
\* triple-quote markers alone, a block opened and closed on one line, a marker
\* after other text, four quote characters (one marker and one quote more), a
\* definition and its body.
LineShapes ==
    { <<>>, <<SP>>, <<"x">>, <<SP, HASH, "x">>,
      TripleDQ, TripleSQ, TripleDQ \o <<"x">> \o TripleDQ, <<"x">> \o TripleDQ,
      TripleDQ \o <<DQ>>, DefLine, PassLine }

RECURSIVE LineSeqs(_)
LineSeqs(n) ==
    IF n = 0 THEN { <<>> }
    ELSE LET shorter == LineSeqs(n - 1)
         IN  shorter \cup { Append(ls, l) : ls \in {x \in shorter : Len(x) = n - 1},
                                             l \in LineShapes }

Texts == { Join(ls, NL) : ls \in LineSeqs(MaxLines) }

AstOutcomes == { AstTree(0), AstTree(1), AstSyntaxError, AstError }

-----------------------------------------------------------------------------
(* One call of __calculate_metrics                                          *)

AnalyseIdle ==
    /\ pc = "idle"
    /\ fs = (<<>> :> Missing)
    /\ kwargs = Kwargs({}, <<>>, <<>>, <<>>)
    /\ exclude_dirs_list = <<>>
    /\ exclude_files_list = <<>>
    /\ requested_metric_ids = <<>>
    /\ metrics_to_compute = <<>>
    /\ hierarchy = NoNode
    /\ project_data = NoReport
    /\ error = "none"
    /\ builderCalls = 0

InitMetrics ==
    /\ content \in Texts
    /\ ast \in AstOutcomes
    /\ mpc = "ready"
    /\ metrics = NoMetrics
    /\ AnalyseIdle

RunCalculateMetrics ==
    /\ mpc = "ready"
    /\ metrics' = CalculateMetrics(content, ast)
    /\ mpc' = "done"
    /\ UNCHANGED <<content, ast>>
    /\ UNCHANGED analyseVars

NextMetrics == RunCalculateMetrics

SpecMetrics == InitMetrics /\ [][NextMetrics]_vars

-----------------------------------------------------------------------------
(* Properties of __calculate_metrics                                        *)

\* "def f():\n    pass\n"
C4Text == DefLine \o <<NL>> \o PassLine \o <<NL>>

C4Case == mpc = "done" /\ content = C4Text /\ ast = AstTree(1)

\* C4 as stated: for the text "def f():\n    pass\n" the metrics are tloc=2, loc=2,
\* cloc=0, nom=1.
C4_AsClaimed ==
    C4Case => metrics = [raised |-> FALSE, value |-> MetricsDict(2, 0, 1, 2)]

\* C4 amended: for the text "def f():\n    pass\n" the metrics are tloc=3 (the final
\* newline ends a third, empty segment), loc=2, cloc=0, nom=1.
C4_Metrics ==
    C4Case => metrics = [raised |-> FALSE, value |-> MetricsDict(2, 0, 1, 3)]

C4_Witness == C4Case /\ ~metrics.raised

Newlines(text) == Cardinality({i \in 1..Len(text) : text[i] = NL})

\* What the n-th segment added to the comment and code counters.
CommentDelta(lines, n) ==
    ClassifierAfter(lines, n).comment_lines_count
        - ClassifierAfter(lines, n - 1).comment_lines_count

CodeDelta(lines, n) ==
    ClassifierAfter(lines, n).code_lines_count
        - ClassifierAfter(lines, n - 1).code_lines_count

\* C5: tloc is the number of newline characters plus one; every segment adds one to
\* exactly one of the code and comment counters or to neither, so loc + cloc <= tloc;
\* and the segments that add to neither are exactly those that are empty once
\* trimmed while the classifier is outside a documentation block.
C5_LinePartition ==
    (mpc = "done" /\ ~metrics.raised) =>
        LET m == metrics.value
            segs == Split(content, NL)
        IN  /\ m[TLOC] = Newlines(content) + 1
            /\ Len(segs) = m[TLOC]
            /\ m[LOC] + m[CLOC] <= m[TLOC]
            /\ m[LOC] = Cardinality({n \in 1..Len(segs) : CodeDelta(segs, n) = 1})
            /\ m[CLOC] = Cardinality({n \in 1..Len(segs) : CommentDelta(segs, n) = 1})
            /\ \A n \in 1..Len(segs) :
                  /\ <<CodeDelta(segs, n), CommentDelta(segs, n)>>
                        \in {<<1, 0>>, <<0, 1>>, <<0, 0>>}
                  /\ (CodeDelta(segs, n) = 0 /\ CommentDelta(segs, n) = 0)
                        <=> (Strip(segs[n]) = <<>>
                             /\ ~ClassifierAfter(segs, n - 1).in_multiline_string)

\* A text with a blank line outside a documentation block, counted as neither, and
\* a blank line inside one, counted as a comment.
C5_Witness ==
    /\ mpc = "done"
    /\ ~metrics.raised
    /\ metrics.value[LOC] + metrics.value[CLOC] < metrics.value[TLOC]
    /\ LET segs == Split(content, NL)
       IN  \E n, k \in 1..Len(segs) :
              /\ Strip(segs[n]) = <<>> /\ CommentDelta(segs, n) = 0
              /\ Strip(segs[k]) = <<>> /\ CommentDelta(segs, k) = 1

\* A line that, once trimmed, starts with a triple-quote marker.
Opens(stripped) == StartsWith(stripped, TripleDQ) \/ StartsWith(stripped, TripleSQ)

\* C13: over every sequence of lines, outside a block a trimmed line that starts
\* with a triple-quote marker adds one comment line and no code line, and the block
\* state is entered exactly when str.count finds that marker once on the line (with
\* two or more the state stays outside); no other line enters the block state;
\* inside a block every line, blank or not, adds one comment line and no code
\* line, the marker is the one that opened the block, and the block is left exactly
\* on a line that contains that marker; a block left open keeps every line from its
\* opening line to the end of the text a comment line.
C13_BlockStateMachine ==
    (mpc = "done" /\ ~metrics.raised) =>
        LET segs == Split(content, NL)
            last == ClassifierAfter(segs, Len(segs))
            Before(n) == ClassifierAfter(segs, n - 1)
            After(n) == ClassifierAfter(segs, n)
            Enters(n) == ~Before(n).in_multiline_string /\ After(n).in_multiline_string
        IN  /\ metrics.value[CLOC] = last.comment_lines_count
            /\ metrics.value[LOC] = last.code_lines_count
            /\ \A n \in 1..Len(segs) :
                  LET stripped == Strip(segs[n])
                      marker == SubSeq(stripped, 1, 3)
                  IN  /\ (~Before(n).in_multiline_string /\ Opens(stripped)) =>
                            /\ CommentDelta(segs, n) = 1 /\ CodeDelta(segs, n) = 0
                            /\ After(n).in_multiline_string <=> Count(stripped, marker) = 1
                            /\ After(n).in_multiline_string =>
                                  After(n).multiline_quote = marker
                      /\ (~Before(n).in_multiline_string /\ ~Opens(stripped)) =>
                            ~After(n).in_multiline_string
                      /\ Before(n).in_multiline_string =>
                            /\ CommentDelta(segs, n) = 1 /\ CodeDelta(segs, n) = 0
                            /\ Before(n).multiline_quote \in {TripleDQ, TripleSQ}
                            /\ After(n).in_multiline_string
                                  <=> ~Contains(stripped, Before(n).multiline_quote)
                            /\ After(n).in_multiline_string =>
                                  After(n).multiline_quote = Before(n).multiline_quote
            /\ last.in_multiline_string =>
                  \E k \in 1..Len(segs) :
                      /\ Enters(k)
                      /\ \A n \in k..Len(segs) :
                            /\ CommentDelta(segs, n) = 1
                            /\ After(n).in_multiline_string
                      /\ metrics.value[CLOC] >= Len(segs) - k + 1

\* A block opened by one marker, a line with the other marker in it that stays a
\* comment inside the block, and the line with the opening marker that ends it.
C13_Witness ==
    /\ mpc = "done"
    /\ ~metrics.raised
    /\ content = Join(<<TripleDQ, TripleSQ, <<"x">> \o TripleDQ>>, NL)
    /\ LET segs == Split(content, NL)
       IN  /\ ClassifierAfter(segs, 1).in_multiline_string
           /\ ClassifierAfter(segs, 2).in_multiline_string
           /\ ~ClassifierAfter(segs, 3).in_multiline_string
    /\ metrics.value[CLOC] = Len(Split(content, NL))
    /\ metrics.value[LOC] = 0

====
